---- MODULE Spec2Model ----
(***************************************************************************)
(* A model of the playd player: the player state machine of player.cpp on  *)
(* top of the audio pipe (PipeAudio), its sink (SdlAudioSink, with the     *)
(* device callback running concurrently) and its source (SoXAudioSource).  *)
(***************************************************************************)
EXTENDS Integers, Sequences, FiniteSets, TLC

VARIABLES
    cstate,   \* player::cstate
    au,       \* player::au: the held audio (NullAu for nullptr)
    ptime,    \* player::ptime
    pc,       \* where main_loop is: "init", "check", "iter", "xfer", "done"
    last,     \* the step taken last: operation, its return value, cstate before
    out,      \* the responses the last step emitted, in order
    hist      \* what has been announced since the audio was loaded or sought

vars == <<cstate, au, ptime, pc, last, out, hist>>

(***************************************************************************)
(* Bounds                                                                  *)
(***************************************************************************)
FileLen == 3        \* samples in an audio file
BufCap == 2         \* samples one Decode() can return at most
RingPower == 1      \* the ring holds 2^RingPower samples
ChannelCount == 1   \* channels of an audio file
MaxReq == 2         \* samples the device asks for in one callback, at most
MaxConvSamples == 20  \* the largest sample count converted on its own

(***************************************************************************)
(* Program constants                                                       *)
(***************************************************************************)
MICROS_IN_SEC == 1000000   \* the literal in SamplesFromMicros and MicrosFromSamples
USECS_IN_SEC == 1000000    \* constants.h
TIME_USECS == 1000000      \* constants.h

\* Sample rates (Hz) of the files that can be loaded.
Rates == {1, 2000}

\* Sample rates (Hz) the conversions are tried with on their own.
ConvRates == {1, 3, 2000, 44100, 48000, 1000000}

Min(a, b) == IF a <= b THEN a ELSE b

RECURSIVE Pow2(_)
Pow2(n) == IF n = 0 THEN 1 ELSE 2 * Pow2(n - 1)

(***************************************************************************)
(* Strings are sequences of characters, so that parsing them is modelled.  *)
(***************************************************************************)
Digits == <<"0", "1", "2", "3", "4", "5", "6", "7", "8", "9">>

IsDigit(c) == \E i \in 1..10 : Digits[i] = c

DigitVal(c) == (CHOOSE i \in 1..10 : Digits[i] = c) - 1

\* The number of leading digits of s.
RECURSIVE DigitPrefixLen(_)
DigitPrefixLen(s) ==
    IF s = <<>> \/ ~IsDigit(Head(s)) THEN 0 ELSE 1 + DigitPrefixLen(Tail(s))

\* The value of a sequence of digits.
RECURSIVE DigitsValue(_, _)
DigitsValue(s, acc) ==
    IF s = <<>> THEN acc ELSE DigitsValue(Tail(s), 10 * acc + DigitVal(Head(s)))

\* The file paths and the time strings the commands are issued with.
Paths == { <<"a">> }

TimeStrs == { <<"0">>, <<"1", "s">>, <<"5", "0", "0", "0", "0", "0">>, <<"2", "q">> }

\* The response sinks (listeners) responses are emitted to.
Listeners == {"rs1", "rs2"}

\* A std::map with no entry.
EmptyMap == [k \in {} |-> 0]

(***************************************************************************)
(* Player states and responses                                             *)
(***************************************************************************)
S_VOID == "Void"
S_EJCT == "Ejct"
S_STOP == "Stop"
S_PLAY == "Play"
S_QUIT == "Quit"

GEND == S_VOID

Resp(code, args) == [code |-> code, args |-> args]

(***************************************************************************)
(* The ring buffer: a FIFO of samples of capacity 2^power.                 *)
(***************************************************************************)
RingCap == Pow2(RingPower)

WriteCapacity(ring) == RingCap - Len(ring)

ReadCapacity(ring) == Len(ring)

RingWrite(ring, samples) == ring \o samples

RingRead(ring, n) == SubSeq(ring, n + 1, Len(ring))

RingFlush(ring) == <<>>

(***************************************************************************)
(* AudioSource / SoXAudioSource                                            *)
(***************************************************************************)
WAITING_FOR_FRAME == "WAITING_FOR_FRAME"
DECODING == "DECODING"
END_OF_FILE == "END_OF_FILE"

DecodeStates == {WAITING_FOR_FRAME, DECODING, END_OF_FILE}

STOPPED == "STOPPED"
PLAYING == "PLAYING"
AT_END == "AT_END"

\* The audio object: the fields of PipeAudio, its source and its sink.
\* Samples are named by their index in the file; frame_iterator is a byte
\* offset into the frame. cb_pc and cb_avail are the callback's position and
\* its local avail_samples; xf_count and xf_cap are Transfer's local count
\* and the write capacity it read, between its reading and its writing.
NullAu ==
    [loaded |-> FALSE, path |-> <<>>, rate |-> 1,
     src_pos |-> 0, decode_state |-> DECODING,
     frame |-> <<>>, frame_iterator |-> 0,
     state |-> STOPPED, source_out |-> FALSE, position_sample_count |-> 0,
     paused |-> TRUE, ring |-> <<>>,
     cb_pc |-> "idle", cb_avail |-> 0,
     xf_count |-> 0, xf_cap |-> 0,
     last_times |-> EmptyMap]

BytesPerSample == 4 * ChannelCount

\* SamplesFromMicros dividing before it multiplies.
SamplesFromMicros_DividesFirst(a, micros) ==
    (micros \div MICROS_IN_SEC) * a.rate

SamplesFromMicros(a, micros) == (micros * a.rate) \div MICROS_IN_SEC

MicrosFromSamples(a, samples) == (samples * MICROS_IN_SEC) \div a.rate

\* sox_read returns n samples: as many as asked for, fewer, or none at the
\* end of the file.
CanRead(a, n) ==
    IF a.src_pos = FileLen THEN n = 0
    ELSE n \in 1..Min(BufCap, FileLen - a.src_pos)

\* Decode(): the source afterwards and the decoded vector.
Decode(a, n) ==
    IF n = 0
    THEN [a |-> [a EXCEPT !.decode_state = END_OF_FILE], decoded |-> <<>>]
    ELSE [a |-> [a EXCEPT !.decode_state = DECODING, !.src_pos = a.src_pos + n],
          decoded |-> [i \in 1..n |-> a.src_pos + i - 1]]

\* SoXAudioSource::Seek(position): ok is FALSE when it throws SeekError;
\* sox_ok is what sox_seek answers.
SourceSeek(a, position, sox_ok) ==
    LET samples == SamplesFromMicros(a, position)
        sox_samples == samples * ChannelCount
        reopened == IF a.decode_state = END_OF_FILE
                    THEN [a EXCEPT !.src_pos = 0]
                    ELSE a
    IN  IF FileLen * ChannelCount < sox_samples
        THEN [a |-> reopened, ok |-> FALSE, samples |-> 0]
        ELSE IF ~sox_ok
        THEN [a |-> reopened, ok |-> FALSE, samples |-> 0]
        ELSE [a |-> [reopened EXCEPT !.src_pos = samples,
                                     !.decode_state = DECODING],
              ok |-> TRUE, samples |-> samples]

(***************************************************************************)
(* SdlAudioSink                                                            *)
(***************************************************************************)
Start(a) ==
    IF a.state # STOPPED THEN a
    ELSE [a EXCEPT !.paused = FALSE, !.state = PLAYING]

Stop(a) ==
    IF a.state = STOPPED THEN a
    ELSE [a EXCEPT !.paused = TRUE, !.state = STOPPED]

SourceOut(a) == [a EXCEPT !.source_out = TRUE]

\* SetPosition leaving the ring buffer as it is.
SetPosition_KeepsRing(a, samples) ==
    LET a1 == [a EXCEPT !.position_sample_count = samples,
                        !.source_out = FALSE]
    IN  IF a1.state = AT_END
        THEN Stop([a1 EXCEPT !.state = STOPPED])
        ELSE a1

SetPosition(a, samples) ==
    LET a1 == [a EXCEPT !.position_sample_count = samples,
                        !.source_out = FALSE]
        a2 == IF a1.state = AT_END
              THEN Stop([a1 EXCEPT !.state = STOPPED])
              ELSE a1
    IN  [a2 EXCEPT !.ring = RingFlush(a2.ring)]

\* Transfer writing all that is left of the frame, whatever room there is.
TransferBegin_IgnoresCapacity(a) ==
    LET bytes == Len(a.frame) * BytesPerSample - a.frame_iterator
        samples == bytes \div BytesPerSample
    IN  IF bytes = 0 THEN a
        ELSE [a EXCEPT !.xf_count = samples, !.xf_cap = WriteCapacity(a.ring)]

\* Transfer(start, end) up to its reading of WriteCapacity(): start is the
\* frame iterator, end the frame's end.
TransferBegin(a) ==
    LET bytes == Len(a.frame) * BytesPerSample - a.frame_iterator
        samples == bytes \div BytesPerSample
        count == Min(samples, WriteCapacity(a.ring))
    IN  IF bytes = 0 THEN a
        ELSE IF count = 0 THEN a
        ELSE [a EXCEPT !.xf_count = count, !.xf_cap = WriteCapacity(a.ring)]

\* Transfer moving the cursor to the frame's end whatever it wrote.
TransferEnd_SkipsToEnd(a) ==
    LET first == a.frame_iterator \div BytesPerSample
    IN  IF a.xf_count = 0 THEN a
        ELSE [a EXCEPT
                !.ring = RingWrite(a.ring,
                                   SubSeq(a.frame, first + 1, first + a.xf_count)),
                !.frame_iterator = Len(a.frame) * BytesPerSample,
                !.xf_count = 0, !.xf_cap = 0]

\* Transfer writing to the ring buffer without moving the cursor on.
TransferEnd_KeepsCursor(a) ==
    LET first == a.frame_iterator \div BytesPerSample
    IN  IF a.xf_count = 0 THEN a
        ELSE [a EXCEPT
                !.ring = RingWrite(a.ring,
                                   SubSeq(a.frame, first + 1, first + a.xf_count)),
                !.xf_count = 0, !.xf_cap = 0]

\* Transfer(start, end) from its Write() on.
TransferEnd(a) ==
    LET first == a.frame_iterator \div BytesPerSample
    IN  IF a.xf_count = 0 THEN a
        ELSE [a EXCEPT
                !.ring = RingWrite(a.ring,
                                   SubSeq(a.frame, first + 1, first + a.xf_count)),
                !.frame_iterator = a.frame_iterator + a.xf_count * BytesPerSample,
                !.xf_count = 0, !.xf_cap = 0]

Transfer(a) == TransferEnd(TransferBegin(a))

(***************************************************************************)
(* PipeAudio                                                               *)
(***************************************************************************)
ClearFrame(a) == [a EXCEPT !.frame = <<>>, !.frame_iterator = 0]

FrameFinished(a) == Len(a.frame) * BytesPerSample <= a.frame_iterator

\* DecodeIfFrameEmpty(): the audio afterwards and the value returned.
DecodeIfFrameEmpty(a, n) ==
    IF ~FrameFinished(a) THEN [a |-> a, more |-> TRUE]
    ELSE LET r == Decode(a, n)
         IN  [a |-> [r.a EXCEPT !.frame = r.decoded, !.frame_iterator = 0],
              more |-> r.a.decode_state # END_OF_FILE]

\* TransferFrame keeping a frame it has sent all of.
TransferFrameEnd_KeepsSentFrame(a) == TransferEnd(a)

\* TransferFrame() from the Write() of its Transfer on.
TransferFrameEnd(a) ==
    LET a1 == TransferEnd(a)
    IN  IF FrameFinished(a1) THEN ClearFrame(a1) ELSE a1

TransferFrame(a) == TransferFrameEnd(TransferBegin(a))

\* Update() up to the reading of WriteCapacity() in Transfer.
UpdateBegin(a, n) ==
    LET d == DecodeIfFrameEmpty(a, n)
        a1 == IF ~d.more THEN SourceOut(d.a) ELSE d.a
    IN  IF ~FrameFinished(a1) THEN TransferBegin(a1) ELSE a1

\* Update() from there on.
UpdateEnd(a) == TransferFrameEnd(a)

Update(a, n) == UpdateEnd(UpdateBegin(a, n))

SetPlaying(a, playing) == IF playing THEN Start(a) ELSE Stop(a)

Position(a) == MicrosFromSamples(a, a.position_sample_count)

\* Seek(position): ok is FALSE when the source throws SeekError.
Seek(a, position, sox_ok) ==
    LET in_samples == SamplesFromMicros(a, position)
        r == SourceSeek(a, in_samples, sox_ok)
    IN  IF ~r.ok THEN [a |-> r.a, ok |-> FALSE]
        ELSE [a |-> ClearFrame([SetPosition(r.a, r.samples)
                                    EXCEPT !.last_times = EmptyMap]),
              ok |-> TRUE]

\* CanAnnounceTime announcing again within the second it last announced.
CanAnnounceTime_SameSecond(a, micros, sink) ==
    LET secs == (micros \div 1000) \div 1000
        found == sink \in DOMAIN a.last_times
        announce == IF found THEN a.last_times[sink] <= secs ELSE TRUE
    IN  [a |-> IF announce
               THEN [a EXCEPT !.last_times =
                        [k \in DOMAIN a.last_times \cup {sink} |->
                            IF k = sink THEN secs ELSE a.last_times[k]]]
               ELSE a,
         announce |-> announce]

\* CanAnnounceTime(micros, sink): the audio afterwards and the value returned.
CanAnnounceTime(a, micros, sink) ==
    LET secs == (micros \div 1000) \div 1000
        found == sink \in DOMAIN a.last_times
        announce == IF found THEN a.last_times[sink] < secs ELSE TRUE
    IN  [a |-> IF announce
               THEN [a EXCEPT !.last_times =
                        [k \in DOMAIN a.last_times \cup {sink} |->
                            IF k = sink THEN secs ELSE a.last_times[k]]]
               ELSE a,
         announce |-> announce]

\* Emit(code, rs, id): the audio afterwards and the responses rs is sent.
Emit(a, code, rs, id) ==
    IF code = "STATE"
    THEN [a |-> a,
          out |-> <<[code |-> code, to |-> rs, id |-> id,
                     args |-> <<IF a.state = PLAYING THEN "Playing"
                                                     ELSE "Stopped">>]>>]
    ELSE IF code = "FILE"
    THEN [a |-> a,
          out |-> <<[code |-> code, to |-> rs, id |-> id, args |-> <<a.path>>]>>]
    ELSE IF code = "TIME"
    THEN LET micros == Position(a)
             r == IF 0 < id
                  THEN [a |-> a, announce |-> TRUE]
                  ELSE CanAnnounceTime(a, micros, rs)
         IN  IF ~r.announce THEN [a |-> a, out |-> <<>>]
             ELSE [a |-> r.a,
                   out |-> <<[code |-> code, to |-> rs, id |-> id,
                              args |-> <<micros>>]>>]
    ELSE [a |-> a, out |-> <<>>]

\* The audio a successful load builds: PipeAudio's and the sink's
\* constructors. The source's decode_state is not set by its constructor.
NewAudio(path, rate, ds) ==
    [NullAu EXCEPT !.loaded = TRUE, !.path = path, !.rate = rate,
                   !.decode_state = ds]

(***************************************************************************)
(* NoAudio: the audio that stands for no file. Its operations answer with  *)
(* the audio afterwards, the error thrown ("none" if none) and the value   *)
(* returned.                                                               *)
(***************************************************************************)
NONE == "NONE"

NoAudioUpdate(a) == [a |-> a, err |-> "none", ret |-> NONE]

\* NoAudio::Seek returning instead of throwing.
NoAudioSeek_Returns(a, position) == [a |-> a, err |-> "none", ret |-> 0]

NoAudioSetPlaying(a, playing) == [a |-> a, err |-> "NoAudioError", ret |-> 0]

NoAudioSeek(a, position) == [a |-> a, err |-> "NoAudioError", ret |-> 0]

NoAudioPosition(a) == [a |-> a, err |-> "NoAudioError", ret |-> 0]

NoAudioEmit(a, code, rs, id) ==
    IF code = "STATE"
    THEN [a |-> a,
          out |-> <<[code |-> code, to |-> rs, id |-> id,
                     args |-> <<"Ejected">>]>>]
    ELSE [a |-> a, out |-> <<>>]

\* Audio::Emit on the held audio, whichever implementation it is.
AudioEmit(a, code, rs, id) ==
    IF a.loaded THEN Emit(a, code, rs, id) ELSE NoAudioEmit(a, code, rs, id)

(***************************************************************************)
(* player (player.cpp). The handlers are operators on the player           *)
(* p = [cstate, au, ptime, out], out being the responses emitted so far.   *)
(***************************************************************************)
Me == [cstate |-> cstate, au |-> au, ptime |-> ptime, out |-> <<>>]

Ret(p, valid, err) == [p |-> p, valid |-> valid, err |-> err]

\* gate_state(s1, ...): walks the arguments up to GEND, or to a match.
RECURSIVE gate_state(_, _)
gate_state(p, gates) ==
    IF gates = <<>> \/ Head(gates) = GEND THEN FALSE
    ELSE IF p.cstate = Head(gates) THEN TRUE
    ELSE gate_state(p, Tail(gates))

set_state(p, state) ==
    [p EXCEPT !.cstate = state,
              !.out = Append(p.out, Resp("STAT", <<p.cstate, state>>))]

\* cmd_ejct keeping the audio it should drop.
cmd_ejct_KeepsAudio(p) ==
    LET valid == gate_state(p, <<S_STOP, S_PLAY, GEND>>)
    IN  IF valid
        THEN Ret([set_state(p, S_EJCT) EXCEPT !.ptime = 0], TRUE, "none")
        ELSE Ret(p, FALSE, "none")

cmd_ejct(p) ==
    LET valid == gate_state(p, <<S_STOP, S_PLAY, GEND>>)
    IN  IF valid
        THEN Ret([set_state([p EXCEPT !.au = NullAu], S_EJCT) EXCEPT !.ptime = 0],
                 TRUE, "none")
        ELSE Ret(p, FALSE, "none")

\* cmd_play starting the audio without recording the new state.
cmd_play_NoSetState(p) ==
    LET valid == gate_state(p, <<S_STOP, GEND>>) /\ p.au.loaded
    IN  IF valid
        THEN Ret([p EXCEPT !.au = SetPlaying(p.au, TRUE)], TRUE, "none")
        ELSE Ret(p, FALSE, "none")

\* cmd_play starting the audio before it looks at the gate.
cmd_play_StartsFirst(p) ==
    LET valid == gate_state(p, <<S_STOP, GEND>>) /\ p.au.loaded
        p1 == IF p.au.loaded
              THEN [p EXCEPT !.au = SetPlaying(p.au, TRUE)]
              ELSE p
    IN  IF valid
        THEN Ret(set_state(p1, S_PLAY), TRUE, "none")
        ELSE Ret(p1, FALSE, "none")

cmd_play(p) ==
    LET valid == gate_state(p, <<S_STOP, GEND>>) /\ p.au.loaded
    IN  IF valid
        THEN Ret(set_state([p EXCEPT !.au = SetPlaying(p.au, TRUE)], S_PLAY),
                 TRUE, "none")
        ELSE Ret(p, FALSE, "none")

\* cmd_quit without its implicit eject.
cmd_quit_NoEject(p) == Ret(set_state(p, S_QUIT), TRUE, "none")

cmd_quit(p) == Ret(set_state(cmd_ejct(p).p, S_QUIT), TRUE, "none")

cmd_stop(p) ==
    LET valid == gate_state(p, <<S_PLAY, GEND>>)
    IN  IF valid
        THEN Ret([p EXCEPT !.au = SetPlaying(p.au, FALSE)], TRUE, "none")
        ELSE Ret(p, FALSE, "none")

\* cmd_load taking the new audio without recording the Stopped state.
cmd_load_KeepsState(p, built) ==
    IF built.loaded
    THEN Ret([p EXCEPT !.au = built], TRUE, "none")
    ELSE Ret(cmd_ejct(p).p, TRUE, "caught")

\* cmd_load(filename): built is NullAu when building the audio throws; the
\* handler catches that, which its result records.
cmd_load(p, built) ==
    IF built.loaded
    THEN Ret(set_state([p EXCEPT !.au = built], S_STOP), TRUE, "none")
    ELSE Ret(cmd_ejct(p).p, TRUE, "caught")

(***************************************************************************)
(* TimeParser: its operations answer with the error thrown ("none" if      *)
(* none) and the value returned.                                           *)
(***************************************************************************)
\* Split(time_str): is >> raw_time, then is >> rest.
Split(time_str) ==
    LET n == DigitPrefixLen(time_str)
    IN  IF n = 0
        THEN [err |-> "SeekError", unit |-> <<>>, raw_time |-> 0]
        ELSE [err |-> "none",
              unit |-> SubSeq(time_str, n + 1, Len(time_str)),
              raw_time |-> DigitsValue(SubSeq(time_str, 1, n), 0)]

UnitMultiplier(unit) ==
    IF unit = <<>> THEN [err |-> "none", mult |-> 1]
    ELSE IF unit = <<"u", "s">> THEN [err |-> "none", mult |-> 1]
    ELSE IF unit = <<"m", "s">> THEN [err |-> "none", mult |-> 1000]
    ELSE IF unit = <<"s">> THEN [err |-> "none", mult |-> 1000000]
    ELSE IF unit = <<"m">> THEN [err |-> "none", mult |-> 60000000]
    ELSE IF unit = <<"h">> THEN [err |-> "none", mult |-> 60 * 60000000]
    ELSE [err |-> "out_of_range", mult |-> 0]

Parse(time_str) ==
    LET seek == Split(time_str)
        m == UnitMultiplier(seek.unit)
    IN  IF seek.err # "none" THEN [err |-> seek.err, micros |-> 0]
        ELSE IF m.err # "none" THEN [err |-> m.err, micros |-> 0]
        ELSE [err |-> "none", micros |-> m.mult * seek.raw_time]

\* The time cmd_seek reads from its argument: is >> time >> rest.
SeekTime(time_str) ==
    LET n == DigitPrefixLen(time_str)
        time == IF n = 0 THEN 0 ELSE DigitsValue(SubSeq(time_str, 1, n), 0)
        rest == IF n = 0 THEN <<>> ELSE SubSeq(time_str, n + 1, Len(time_str))
    IN  IF rest = <<"s">> \/ rest = <<"s", "e", "c">>
        THEN time * USECS_IN_SEC
        ELSE time

\* cmd_seek(time_str): a SeekError leaves the handler where it is thrown.
cmd_seek(p, time_str, sox_ok) ==
    LET time == SeekTime(time_str)
        valid == gate_state(p, <<S_PLAY, S_STOP, GEND>>)
        current_state == p.cstate
        p1 == cmd_stop(p).p
        r == Seek(p1.au, time, sox_ok)
        p2 == [p1 EXCEPT !.au = r.a]
    IN  IF ~valid THEN Ret(p, FALSE, "none")
        ELSE IF ~r.ok THEN Ret(p2, FALSE, "SeekError")
        ELSE IF current_state = S_PLAY THEN Ret(cmd_play(p2).p, TRUE, "none")
        ELSE Ret(p2, TRUE, "none")

\* audio::halted(): the audio has played out.
halted(a) == a.state = AT_END

\* loop_iter(), up to the reading of WriteCapacity() in the Transfer of its
\* decode(): n is what the decoder reads, if it is asked to.
loop_iter(p, n) ==
    LET p1 == IF p.cstate = S_PLAY
              THEN IF halted(p.au)
                   THEN cmd_ejct(p).p
                   ELSE LET time == Position(p.au)
                        IN  [p EXCEPT
                               !.out = IF time \div TIME_USECS > p.ptime \div TIME_USECS
                                       THEN Append(p.out, Resp("TIME", <<time>>))
                                       ELSE p.out,
                               !.ptime = time]
              ELSE p
    IN  IF p1.cstate = S_PLAY \/ p1.cstate = S_STOP
        THEN [p1 EXCEPT !.au = UpdateBegin(p1.au, n)]
        ELSE p1

(***************************************************************************)
(* The steps of the program                                                *)
(***************************************************************************)
Cmds == {"play", "stop", "ejct", "quit", "load", "seek"}

\* The response codes PipeAudio::Emit is called with.
EmitCodes == {"TIME"}

\* player::ptime is not set by the constructor.
PtimeInit == {0, 3 * TIME_USECS}

\* Nothing announced yet: no TIME broadcast sent to any listener, no seek
\* since the last TIME pulse of loop_iter, no TIME pulse sent.
HistInit == [sent |-> EmptyMap, seeked |-> FALSE, announced |-> FALSE]

HasTime(responses) == \E i \in 1..Len(responses) : responses[i].code = "TIME"

\* The history after a step, from what the step did.
HistNext ==
    hist' =
        IF ~au'.loaded \/ last'.op = "load" THEN HistInit
        ELSE IF last'.op = "seek" /\ last'.valid
        THEN [hist EXCEPT !.sent = EmptyMap, !.seeked = TRUE]
        ELSE IF last'.op = "loop_iter" /\ cstate = S_PLAY /\ ~halted(au)
        THEN [hist EXCEPT !.seeked = FALSE,
                          !.announced = hist.announced \/ HasTime(out')]
        ELSE IF last'.op = "emit" /\ HasTime(out') /\ out'[1].id = 0
        THEN [hist EXCEPT !.sent =
                 [k \in DOMAIN hist.sent \cup {out'[1].to} |->
                     IF k = out'[1].to
                     THEN out'[1].args[1] \div MICROS_IN_SEC
                     ELSE hist.sent[k]]]
        ELSE hist

Init ==
    /\ cstate = S_EJCT
    /\ au = NullAu
    /\ ptime \in PtimeInit
    /\ pc = "init"
    /\ last = [op |-> "new", verb |-> "", valid |-> TRUE, err |-> "none",
               pre |-> S_VOID, arg |-> 0]
    /\ out = <<>>
    /\ hist = HistInit

Commit(p) ==
    /\ cstate' = p.cstate
    /\ au' = p.au
    /\ ptime' = p.ptime
    /\ out' = p.out

\* SDL_PauseAudioDevice and SDL_CloseAudioDevice take the device lock, which
\* the device holds while it runs the callback.
DeviceLockFree == au.cb_pc = "idle"

\* A command line with the given verb has run the handler op, which
\* returned r.
HandledWith(verb, op, ret, arg) ==
    /\ pc = "check"
    /\ DeviceLockFree
    /\ \E r \in {ret} :
        /\ Commit(r.p)
        /\ last' = [op |-> op, verb |-> verb, valid |-> r.valid, err |-> r.err,
                    pre |-> cstate, arg |-> arg]
    /\ pc' = pc
    /\ HistNext

Handled(verb, op, ret) == HandledWith(verb, op, ret, 0)

\* main_loop() up to its first check_commands().
MainLoopStart ==
    /\ pc = "init"
    /\ pc' = IF cstate # S_QUIT THEN "check" ELSE "done"
    /\ out' = <<Resp("OHAI", <<>>)>>
    /\ last' = [op |-> "main_loop", verb |-> "", valid |-> TRUE, err |-> "none",
                pre |-> cstate, arg |-> 0]
    /\ UNCHANGED <<cstate, au, ptime, hist>>

\* The handlers PLAYER_CMDS binds to the verbs.
DoPlay == Handled("play", "play", cmd_play(Me))

DoStop == Handled("stop", "stop", cmd_stop(Me))

DoEjct == Handled("ejct", "ejct", cmd_ejct(Me))

DoQuit == Handled("quit", "quit", cmd_quit(Me))

\* Building the audio of a load either throws or yields a fresh audio.
Builds(path) ==
    {NullAu} \cup {NewAudio(path, rate, ds) : rate \in Rates, ds \in DecodeStates}

DoLoad ==
    \E path \in Paths : \E built \in Builds(path) :
        Handled("load", "load", cmd_load(Me, built))

DoSeek ==
    \E time_str \in TimeStrs : \E built \in Builds(time_str) :
        Handled("seek", "load", cmd_load(Me, built))

\* player::cmd_seek, called with a time string; the step records the time
\* string.
CmdSeek ==
    \E time_str \in TimeStrs : \E sox_ok \in BOOLEAN :
        HandledWith("", "seek", cmd_seek(Me, time_str, sox_ok), time_str)

\* PipeAudio::Emit, called on the held audio for a listener: as a broadcast
\* (id 0) or as the answer to the listener's request id. The step records
\* whether the listener had been sent a TIME broadcast since the last seek.
DoEmit ==
    /\ pc = "check"
    /\ au.loaded
    /\ \E code \in EmitCodes : \E rs \in Listeners : \E id \in {0, 1} :
         \E r \in {Emit(au, code, rs, id)} :
            /\ au' = r.a
            /\ out' = r.out
            /\ last' = [op |-> "emit", verb |-> "", valid |-> TRUE,
                        err |-> "none", pre |-> cstate,
                        arg |-> IF rs \in DOMAIN hist.sent THEN 1 ELSE 0]
    /\ UNCHANGED <<cstate, ptime, pc>>
    /\ HistNext

\* check_commands() returns: no command is pending.
CheckDone ==
    /\ pc = "check"
    /\ pc' = "iter"
    /\ out' = <<>>
    /\ last' = [op |-> "check_commands", verb |-> "", valid |-> TRUE,
                err |-> "none", pre |-> cstate, arg |-> 0]
    /\ UNCHANGED <<cstate, au, ptime, hist>>

\* loop_iter() and, unless its Transfer has samples to write, the sleep and
\* the test of the while loop of main_loop().
LoopIter ==
    /\ pc = "iter"
    /\ DeviceLockFree \/ ~(cstate = S_PLAY /\ halted(au))
    /\ \E n \in 0..BufCap :
        /\ CanRead(au, n)
        /\ \E p \in {loop_iter(Me, n)} :
            IF p.cstate = S_QUIT
            THEN /\ Commit([p EXCEPT !.out = Append(p.out, Resp("TTFN", <<>>))])
                 /\ pc' = "done"
            ELSE /\ Commit(p)
                 /\ pc' = IF p.au.xf_count > 0 THEN "xfer" ELSE "check"
    /\ last' = [op |-> "loop_iter", verb |-> "", valid |-> TRUE, err |-> "none",
                pre |-> cstate, arg |-> 0]
    /\ HistNext

\* The rest of loop_iter(): the Write() of Transfer and what follows it, then
\* the sleep and the test of the while loop. The step records how many
\* samples the callback has read since Transfer read the write capacity.
LoopXfer ==
    /\ pc = "xfer"
    /\ au' = UpdateEnd(au)
    /\ pc' = "check"
    /\ out' = <<>>
    /\ last' = [op |-> "transfer", verb |-> "", valid |-> TRUE, err |-> "none",
                pre |-> cstate, arg |-> WriteCapacity(au.ring) - au.xf_cap]
    /\ UNCHANGED <<cstate, ptime, hist>>

\* SdlAudioSink::Callback up to ReadCapacity(); the device runs it while it
\* is not paused.
CallbackBegin(a) ==
    IF a.state # PLAYING THEN a
    ELSE [a EXCEPT !.cb_pc = "read", !.cb_avail = ReadCapacity(a.ring)]

\* The callback counting the samples asked for, not the samples read.
CallbackEnd_CountsRequested(a, req) ==
    IF a.cb_avail = 0
    THEN [a EXCEPT !.state = IF a.source_out THEN AT_END ELSE a.state,
                   !.cb_pc = "idle"]
    ELSE LET samples == Min(req, a.cb_avail)
         IN  [a EXCEPT !.ring = RingRead(a.ring, samples),
                       !.position_sample_count = a.position_sample_count + req,
                       !.cb_pc = "idle", !.cb_avail = 0]

\* SdlAudioSink::Callback from there on; req is the samples asked for.
CallbackEnd(a, req) ==
    IF a.cb_avail = 0
    THEN [a EXCEPT !.state = IF a.source_out THEN AT_END ELSE a.state,
                   !.cb_pc = "idle"]
    ELSE LET samples == Min(req, a.cb_avail)
         IN  [a EXCEPT !.ring = RingRead(a.ring, samples),
                       !.position_sample_count =
                           a.position_sample_count + samples,
                       !.cb_pc = "idle", !.cb_avail = 0]

CbBegin ==
    /\ au.loaded
    /\ ~au.paused
    /\ au.cb_pc = "idle"
    /\ au' = CallbackBegin(au)
    /\ out' = <<>>
    /\ last' = [op |-> "callback", verb |-> "", valid |-> TRUE, err |-> "none",
                pre |-> cstate, arg |-> 0]
    /\ UNCHANGED <<cstate, ptime, pc, hist>>

CbEnd ==
    /\ au.loaded
    /\ au.cb_pc = "read"
    /\ \E req \in 1..MaxReq : au' = CallbackEnd(au, req)
    /\ out' = <<>>
    /\ last' = [op |-> "callback", verb |-> "", valid |-> TRUE, err |-> "none",
                pre |-> cstate, arg |-> 0]
    /\ UNCHANGED <<cstate, ptime, pc, hist>>

Loop == MainLoopStart \/ CheckDone \/ LoopIter \/ LoopXfer

Callback == CbBegin \/ CbEnd

Next ==
    \/ MainLoopStart
    \/ DoPlay
    \/ DoStop
    \/ DoEjct
    \/ DoQuit
    \/ DoLoad
    \/ DoSeek
    \/ CmdSeek
    \/ CheckDone
    \/ LoopIter
    \/ LoopXfer
    \/ CbBegin
    \/ CbEnd

Spec == Init /\ [][Next]_vars

\* The commands the command table reaches with their own verbs.
Command == DoPlay \/ DoStop \/ DoEjct \/ DoQuit \/ DoLoad

\* The update loop keeps running and the device keeps calling back, whatever
\* the clients send.
FairSpec ==
    Init /\ [][Command \/ Loop \/ Callback]_vars
         /\ WF_vars(Loop) /\ WF_vars(Callback)

\* The operations of NoAudio, called while no audio is held.
NoAudioCalls ==
    {"NoAudio::SetPlaying", "NoAudio::Seek", "NoAudio::Position",
     "NoAudio::Update"}

NoAudioCall(call, a) ==
    IF call = "NoAudio::SetPlaying" THEN NoAudioSetPlaying(a, TRUE)
    ELSE IF call = "NoAudio::Seek" THEN NoAudioSeek(a, 0)
    ELSE IF call = "NoAudio::Position" THEN NoAudioPosition(a)
    ELSE NoAudioUpdate(a)

DoNoAudio ==
    /\ pc = "check"
    /\ ~au.loaded
    /\ \E call \in NoAudioCalls : \E r \in {NoAudioCall(call, au)} :
         /\ au' = r.a
         /\ last' = [op |-> call, verb |-> "", valid |-> r.err = "none",
                     err |-> r.err, pre |-> cstate, arg |-> r.ret]
    /\ out' = <<>>
    /\ UNCHANGED <<cstate, ptime, pc>>
    /\ HistNext

\* Audio::Emit of the state or the file, called on the held audio (or on
\* the null audio) for a listener.
DoEmitInfo ==
    /\ pc = "check"
    /\ \E code \in {"STATE", "FILE"} : \E rs \in Listeners : \E id \in {0, 1} :
         \E r \in {AudioEmit(au, code, rs, id)} :
            /\ au' = r.a
            /\ out' = r.out
    /\ last' = [op |-> "emit", verb |-> "", valid |-> TRUE, err |-> "none",
                pre |-> cstate, arg |-> 0]
    /\ UNCHANGED <<cstate, ptime, pc>>
    /\ HistNext

\* The player with the Audio interface: the audio is loaded, played to its
\* end and ejected, while its state and file are emitted to the listeners
\* and the operations of the null audio are called when none is held.
AudioNext ==
    \/ MainLoopStart
    \/ DoLoad
    \/ DoPlay
    \/ DoEjct
    \/ DoEmitInfo
    \/ DoNoAudio
    \/ CheckDone
    \/ LoopIter
    \/ LoopXfer
    \/ CbBegin
    \/ CbEnd

AudioSpec == Init /\ [][AudioNext]_vars

\* The player with listeners: the audio is loaded, played and sought while
\* TIME responses are emitted to the listeners.
TimeNext ==
    \/ MainLoopStart
    \/ DoLoad
    \/ DoPlay
    \/ CmdSeek
    \/ DoEmit
    \/ CheckDone
    \/ LoopIter
    \/ LoopXfer
    \/ CbBegin
    \/ CbEnd

TimeSpec == Init /\ [][TimeNext]_vars

\* The conversions on their own: a source of some sample rate converts a
\* sample count (kept in the sink's position) to microseconds (kept in
\* ptime) and back. Each step records the sample count it started from.
ConvInit ==
    /\ cstate = S_STOP
    /\ \E rate \in ConvRates : \E samples \in 0..MaxConvSamples :
         au = [NewAudio(<<"a">>, rate, DECODING)
                 EXCEPT !.position_sample_count = samples]
    /\ ptime = 0
    /\ pc = "conv"
    /\ last = [op |-> "new", verb |-> "", valid |-> TRUE, err |-> "none",
               pre |-> S_VOID, arg |-> 0]
    /\ out = <<>>
    /\ hist = HistInit

ConvToMicros ==
    /\ pc = "conv"
    /\ ptime' = MicrosFromSamples(au, au.position_sample_count)
    /\ pc' = "micros"
    /\ last' = [op |-> "MicrosFromSamples", verb |-> "", valid |-> TRUE,
                err |-> "none", pre |-> cstate, arg |-> au.position_sample_count]
    /\ UNCHANGED <<cstate, au, out, hist>>

ConvToSamples ==
    /\ pc = "micros"
    /\ au' = [au EXCEPT !.position_sample_count = SamplesFromMicros(au, ptime)]
    /\ pc' = "samples"
    /\ last' = [op |-> "SamplesFromMicros", verb |-> "", valid |-> TRUE,
                err |-> "none", pre |-> cstate, arg |-> last.arg]
    /\ UNCHANGED <<cstate, ptime, out, hist>>

ConvNext == ConvToMicros \/ ConvToSamples

ConvSpec == ConvInit /\ [][ConvNext]_vars

(***************************************************************************)
(* CommandResult: the result of a command, and the ACK response it sends.  *)
(* A result is its code and its message; a command is its words.           *)
(***************************************************************************)
OK == 0

WHAT == 1

FAIL == 2

Codes == {OK, WHAT, FAIL}

\* The names of the codes, in the order of the enumeration.
STRINGS == <<"OK", "WHAT", "FAIL">>

CommandResult(type, msg) == [type |-> type, msg |-> msg]

Success == CommandResult(OK, "success")

\* CommandResult::Invalid building a result with the code OK.
Invalid_AsOK(msg) == CommandResult(OK, msg)

Invalid(msg) == CommandResult(WHAT, msg)

Failure(msg) == CommandResult(FAIL, msg)

IsSuccess(c) == c.type = OK

\* The response Emit sends to the sink: ACK, then the name of the code, the
\* message and the words of the command.
CommandResultEmit(c, rs, cmd, id) ==
    [code |-> "ACK", to |-> rs, id |-> id,
     args |-> <<STRINGS[c.type + 1], c.msg>> \o cmd]

ResultMsgs == {"PEBCAK error", "lp0 on fire", ""}

ResultWords == {"OHAI", "testy test"}

MaxWords == 2

ResultCmds == UNION { [1..n -> ResultWords] : n \in 0..MaxWords }

\* The results the constructors build.
Results ==
    {Success} \cup { Invalid(m) : m \in ResultMsgs }
              \cup { Failure(m) : m \in ResultMsgs }
              \cup { CommandResult(t, m) : t \in Codes, m \in ResultMsgs }

ResultInit ==
    /\ cstate = S_EJCT
    /\ au = NullAu
    /\ ptime = 0
    /\ pc = "result"
    /\ \E c \in Results : \E cmd \in ResultCmds : \E id \in 0..1 :
         last = [op |-> "CommandResult", verb |-> "", valid |-> TRUE,
                 err |-> "none", pre |-> S_VOID,
                 arg |-> [c |-> c, cmd |-> cmd, id |-> id]]
    /\ out = <<>>
    /\ hist = HistInit

\* The command handler asks whether the result is a success.
ResultIsSuccess ==
    /\ pc = "result"
    /\ pc' = "asked"
    /\ last' = [last EXCEPT !.op = "IsSuccess", !.valid = IsSuccess(last.arg.c)]
    /\ UNCHANGED <<cstate, au, ptime, out, hist>>

\* The result is sent to the sink as a response to the command.
ResultEmit ==
    /\ pc \in {"result", "asked"}
    /\ pc' = "emitted"
    /\ \E rs \in Listeners :
         out' = out \o <<CommandResultEmit(last.arg.c, rs, last.arg.cmd,
                                           last.arg.id)>>
    /\ last' = [last EXCEPT !.op = "Emit"]
    /\ UNCHANGED <<cstate, au, ptime, hist>>

ResultNext == ResultIsSuccess \/ ResultEmit

ResultSpec == ResultInit /\ [][ResultNext]_vars

(***************************************************************************)
(* The sink on its own: the update thread calls Start, Stop, SourceOut,    *)
(* SetPosition and Transfer in any order while the device runs the         *)
(* callback. Each operation is cut at its reads and writes of the fields   *)
(* the two threads share; pc is the update thread's position, au.cb_pc the *)
(* callback's. SDL_PauseAudioDevice takes the device lock, which the       *)
(* device holds while the callback runs.                                   *)
(***************************************************************************)
\* Start() up to and including SDL_PauseAudioDevice(device, 0).
StartBegin(a) ==
    IF a.state # STOPPED THEN a ELSE [a EXCEPT !.paused = FALSE]

\* Start()'s write of the state.
StartEnd(a) == [a EXCEPT !.state = PLAYING]

\* Stop() up to and including SDL_PauseAudioDevice(device, 1).
StopBegin(a) ==
    IF a.state = STOPPED THEN a ELSE [a EXCEPT !.paused = TRUE]

\* Stop()'s write of the state.
StopEnd(a) == [a EXCEPT !.state = STOPPED]

\* Whether SourceOut()'s assertion holds.
SourceOutAssert(a) == a.source_out \/ a.state # AT_END

\* SetPosition() up to its reading of the state.
SetPositionBegin(a, samples) ==
    [a EXCEPT !.position_sample_count = samples, !.source_out = FALSE]

\* SetPosition()'s reading of the state and what hangs on it.
SetPositionCheck(a) ==
    IF a.state = AT_END THEN Stop([a EXCEPT !.state = STOPPED]) ELSE a

\* SetPosition()'s flushing of the ring buffer.
SetPositionEnd(a) == [a EXCEPT !.ring = RingFlush(a.ring)]

\* The callback's reading of the state, whatever the state is.
CallbackCheck_IgnoresState(a) == [a EXCEPT !.cb_pc = "avail"]

\* The callback going on when the sink is at the end.
CallbackCheck_PlaysAtEnd(a) ==
    IF a.state = STOPPED THEN a ELSE [a EXCEPT !.cb_pc = "avail"]

\* The callback's reading of the state.
CallbackCheck(a) ==
    IF a.state # PLAYING THEN a ELSE [a EXCEPT !.cb_pc = "avail"]

\* The callback's reading of the ring buffer's read capacity.
CallbackAvail(a) ==
    [a EXCEPT !.cb_avail = ReadCapacity(a.ring),
              !.cb_pc = IF ReadCapacity(a.ring) = 0 THEN "empty" ELSE "read"]

\* The callback's reading of source_out when nothing is available.
CallbackOut(a) ==
    [a EXCEPT !.cb_pc = IF a.source_out THEN "end" ELSE "idle"]

\* The callback's write of the state.
CallbackAtEnd(a) == [a EXCEPT !.state = AT_END, !.cb_pc = "idle"]

SinkInit ==
    /\ cstate = S_STOP
    /\ au = NewAudio(<<"a">>, 1, DECODING)
    /\ ptime = 0
    /\ pc = "sink"
    /\ last = [op |-> "new", verb |-> "", valid |-> TRUE, err |-> "none",
               pre |-> S_VOID, arg |-> STOPPED]
    /\ out = <<>>
    /\ hist = HistInit

\* The update thread has done a step of the operation op and is now at
\* position at; last.arg is the state of the sink before the step.
SinkStep(op, a, at) ==
    /\ au' = a
    /\ pc' = at
    /\ last' = [op |-> op, verb |-> "", valid |-> TRUE, err |-> "none",
                pre |-> cstate, arg |-> au.state]
    /\ UNCHANGED <<cstate, ptime, out, hist>>

SinkStartBegin ==
    /\ pc = "sink"
    /\ au.state = STOPPED => DeviceLockFree
    /\ SinkStep("Start", StartBegin(au),
                IF au.state # STOPPED THEN "sink" ELSE "start")

SinkStartEnd ==
    /\ pc = "start"
    /\ SinkStep("Start", StartEnd(au), "sink")

SinkStopBegin ==
    /\ pc = "sink"
    /\ au.state # STOPPED => DeviceLockFree
    /\ SinkStep("Stop", StopBegin(au),
                IF au.state = STOPPED THEN "sink" ELSE "stop")

SinkStopEnd ==
    /\ pc = "stop"
    /\ SinkStep("Stop", StopEnd(au), "sink")

\* SourceOut(); a failed assertion ends the program.
SinkSourceOut ==
    /\ pc = "sink"
    /\ IF SourceOutAssert(au)
       THEN SinkStep("SourceOut", SourceOut(au), "sink")
       ELSE /\ pc' = "aborted"
            /\ last' = [op |-> "SourceOut", verb |-> "", valid |-> FALSE,
                        err |-> "assert", pre |-> cstate, arg |-> au.state]
            /\ UNCHANGED <<cstate, au, ptime, out, hist>>

SinkSetPositionBegin ==
    /\ pc = "sink"
    /\ \E samples \in 0..FileLen :
         SinkStep("SetPosition", SetPositionBegin(au, samples), "setpos")

SinkSetPositionCheck ==
    /\ pc = "setpos"
    /\ SinkStep("SetPosition", SetPositionCheck(au), "flush")

SinkSetPositionEnd ==
    /\ pc = "flush"
    /\ SinkStep("SetPosition", SetPositionEnd(au), "sink")

\* Transfer() of one sample of the file, if the ring buffer has room.
SinkTransfer ==
    /\ pc = "sink"
    /\ au.position_sample_count + Len(au.ring) < FileLen
    /\ WriteCapacity(au.ring) > 0
    /\ SinkStep("Transfer",
                [au EXCEPT !.ring = RingWrite(au.ring,
                      <<au.position_sample_count + Len(au.ring)>>)],
                "sink")

SILENCE == 0 - 1

\* The device's buffer of n samples, set to silence.
Silence(n) == [i \in 1..n |-> SILENCE]

\* The callback has done a step; buf is the device's buffer after it.
SinkCbStep(a, buf) ==
    /\ au' = a
    /\ out' = buf
    /\ last' = [op |-> "Callback", verb |-> "", valid |-> TRUE, err |-> "none",
                pre |-> cstate, arg |-> au.state]
    /\ UNCHANGED <<cstate, ptime, pc, hist>>

\* The device calls the callback for a buffer of req samples.
SinkCbCheck ==
    /\ pc # "aborted"
    /\ ~au.paused
    /\ au.cb_pc = "idle"
    /\ \E req \in 1..MaxReq : SinkCbStep(CallbackCheck(au), Silence(req))

SinkCbAvail ==
    /\ au.cb_pc = "avail"
    /\ SinkCbStep(CallbackAvail(au), out)

SinkCbOut ==
    /\ au.cb_pc = "empty"
    /\ SinkCbStep(CallbackOut(au), out)

SinkCbAtEnd ==
    /\ au.cb_pc = "end"
    /\ SinkCbStep(CallbackAtEnd(au), out)

\* The samples read go to the front of the buffer.
SinkCbRead ==
    /\ au.cb_pc = "read"
    /\ \E read \in {SubSeq(au.ring, 1, Min(Min(Len(out), au.cb_avail),
                                           Len(au.ring)))} :
         SinkCbStep(CallbackEnd(au, Len(out)),
                    read \o Silence(Len(out) - Len(read)))

SinkNext ==
    \/ SinkStartBegin
    \/ SinkStartEnd
    \/ SinkStopBegin
    \/ SinkStopEnd
    \/ SinkSourceOut
    \/ SinkSetPositionBegin
    \/ SinkSetPositionCheck
    \/ SinkSetPositionEnd
    \/ SinkTransfer
    \/ SinkCbCheck
    \/ SinkCbAvail
    \/ SinkCbOut
    \/ SinkCbAtEnd
    \/ SinkCbRead

SinkSpec == SinkInit /\ [][SinkNext]_vars

(***************************************************************************)
(* The pipe on its own: a playing audio whose Update runs beside the        *)
(* callback, with seeks made as the player makes them. hist.decoded is what *)
(* Decode has produced since the last seek, hist.delivered what the         *)
(* callback has read out of the ring buffer for the device since then.      *)
(***************************************************************************)
PipeRate == 1000000

PipeHistInit == [decoded |-> <<>>, delivered |-> <<>>]

PipeInit ==
    /\ cstate = S_PLAY
    /\ \E ds \in DecodeStates : au = Start(NewAudio(<<"a">>, PipeRate, ds))
    /\ ptime = 0
    /\ pc = "check"
    /\ last = [op |-> "new", verb |-> "", valid |-> TRUE, err |-> "none",
               pre |-> S_VOID, arg |-> 0]
    /\ out = <<>>
    /\ hist = PipeHistInit

PipeStep(op, arg) ==
    /\ last' = [op |-> op, verb |-> "", valid |-> TRUE, err |-> "none",
                pre |-> cstate, arg |-> arg]
    /\ UNCHANGED <<cstate, ptime>>

\* Update() up to the reading of WriteCapacity() in Transfer; n is what the
\* decoder reads, if it is asked to.
PipeUpdateBegin ==
    /\ pc = "check"
    /\ \E n \in 0..BufCap :
        /\ CanRead(au, n)
        /\ \E d \in {DecodeIfFrameEmpty(au, n)} : \E a \in {UpdateBegin(au, n)} :
            /\ au' = a
            /\ hist' = [hist EXCEPT !.decoded =
                          IF FrameFinished(au) THEN hist.decoded \o d.a.frame
                                               ELSE hist.decoded]
            /\ pc' = IF a.xf_count > 0 THEN "xfer" ELSE "check"
    /\ out' = <<>>
    /\ PipeStep("Update", 0)

\* Update() from there on.
PipeUpdateEnd ==
    /\ pc = "xfer"
    /\ au' = UpdateEnd(au)
    /\ pc' = "check"
    /\ out' = <<>>
    /\ PipeStep("Update", 0)
    /\ UNCHANGED hist

PipeCbBegin ==
    /\ ~au.paused
    /\ au.cb_pc = "idle"
    /\ au' = CallbackBegin(au)
    /\ out' = <<>>
    /\ PipeStep("Callback", 0)
    /\ UNCHANGED <<pc, hist>>

\* The rest of the callback; what it reads out of the ring buffer goes to
\* the device.
PipeCbEnd ==
    /\ au.cb_pc = "read"
    /\ \E req \in 1..MaxReq : \E a \in {CallbackEnd(au, req)} :
        /\ au' = a
        /\ \E read \in {SubSeq(au.ring, 1, Len(au.ring) - Len(a.ring))} :
            /\ out' = read
            /\ hist' = [hist EXCEPT !.delivered = hist.delivered \o read]
    /\ PipeStep("Callback", 0)
    /\ UNCHANGED pc

\* A seek as cmd_seek makes it: the audio is stopped, sought and, if it was
\* playing, started again.
PipeSeek ==
    /\ pc = "check"
    /\ DeviceLockFree
    /\ \E position \in 0..FileLen :
        \E r \in {Seek(SetPlaying(au, FALSE), position, TRUE)} :
            /\ r.ok
            /\ au' = IF au.state = PLAYING THEN SetPlaying(r.a, TRUE) ELSE r.a
            /\ PipeStep("Seek", position)
    /\ hist' = PipeHistInit
    /\ out' = <<>>
    /\ UNCHANGED pc

PipeNext ==
    \/ PipeUpdateBegin
    \/ PipeUpdateEnd
    \/ PipeCbBegin
    \/ PipeCbEnd
    \/ PipeSeek

PipeSpec == PipeInit /\ [][PipeNext]_vars

TypeOK ==
    /\ cstate \in {S_EJCT, S_STOP, S_PLAY, S_QUIT}
    /\ pc \in {"init", "check", "iter", "xfer", "done"}
    /\ au.state \in {STOPPED, PLAYING, AT_END}
    /\ au.src_pos \in 0..FileLen
    /\ Len(au.ring) <= RingCap

(***************************************************************************)
(* The claims                                                              *)
(***************************************************************************)
Fresh(a) ==
    /\ a.loaded
    /\ a.src_pos = 0 /\ a.frame = <<>> /\ a.ring = <<>>
    /\ a.state = STOPPED /\ a.paused /\ a.position_sample_count = 0

\* The last step ran the handler op for a command.
Ran(op) == last.op = op /\ pc = "check"

\* The last step's command was refused by its state gate.
Refused == last.op \in Cmds /\ ~last.valid /\ last.err = "none"

\* C1: stop is accepted only when the player is Playing, and an accepted
\* stop stops the audio and leaves the player Stopped.
C1_StopStops ==
    Ran("stop") =>
        /\ last.valid <=> last.pre = S_PLAY
        /\ last.valid => au.state = STOPPED /\ cstate = S_STOP

\* C2: seek is accepted only in Playing or Stopped; after a seek issued
\* while Playing the player is Playing and the audio is playing again; after
\* a seek issued while Stopped the player and the audio are both stopped.
C2_SeekResumes ==
    Ran("seek") =>
        /\ ~Refused <=> last.pre \in {S_PLAY, S_STOP}
        /\ last.valid /\ last.pre = S_PLAY =>
               cstate = S_PLAY /\ au.state = PLAYING /\ ~au.paused
        /\ last.valid /\ last.pre = S_STOP =>
               cstate = S_STOP /\ au.state = STOPPED /\ au.paused

\* C3: play is accepted exactly when the player is Stopped (so it is
\* refused when Ejected, Playing or Quit), and an accepted play starts the
\* audio and leaves the player Playing.
C3_PlayGate ==
    Ran("play") =>
        /\ last.valid <=> last.pre = S_STOP
        /\ last.valid =>
               /\ cstate = S_PLAY
               /\ au.loaded /\ au.state = PLAYING /\ ~au.paused

C3_Witness == Ran("play") /\ last.valid /\ cstate = S_PLAY /\ au.state = PLAYING

\* C4: load is accepted in every player state; if building the audio
\* succeeds the player holds the new audio and is Stopped, and if it fails
\* the player holds no audio and is Ejected.
C4_LoadOutcome ==
    Ran("load") /\ last.verb = "load" =>
        /\ last.valid
        /\ last.err = "none" => Fresh(au) /\ cstate = S_STOP
        /\ last.err = "caught" => ~au.loaded /\ cstate = S_EJCT

\* C5: eject is accepted exactly when the player is Stopped or Playing, and
\* an accepted eject drops the audio and leaves the player Ejected.
C5_EjectGate ==
    Ran("ejct") =>
        /\ last.valid <=> last.pre \in {S_STOP, S_PLAY}
        /\ last.valid => au = NullAu /\ cstate = S_EJCT

C5_Witness == Ran("ejct") /\ last.valid /\ last.pre = S_PLAY /\ cstate = S_EJCT

\* C6: quit is accepted in every player state, drops any held audio and
\* leaves the player in Quit.
C6_QuitAlways ==
    Ran("quit") => last.valid /\ au = NullAu /\ cstate = S_QUIT

C6_Witness == Ran("quit") /\ last.pre = S_PLAY /\ cstate = S_QUIT

\* C7: a command refused by its state gate leaves the player state and the
\* held audio as they were and emits no STATE response.
C7_RefusedChangesNothing ==
    [][ Refused' =>
          /\ cstate' = cstate
          /\ au' = au
          /\ \A i \in 1..Len(out') : out'[i].code # "STAT" ]_vars

C7_Witness ==
    Ran("play") /\ Refused /\ last.pre = S_EJCT /\ cstate = S_EJCT /\ out = <<>>

\* C8: Quit is terminal: once the player state is Quit, no later step
\* changes it.
C8_QuitTerminal == [][ cstate = S_QUIT => cstate' = S_QUIT ]_vars

\* C9: once the player is Playing and the source has reached the end of the
\* file, then, the loop and the callback running on and no further command
\* being issued, the player is eventually Ejected with its audio dropped.
C9_EofLeadsToEject ==
    (cstate = S_PLAY /\ au.loaded /\ au.source_out)
        ~> ((cstate = S_EJCT /\ ~au.loaded) \/ last.op \in Cmds)

\* C10: the step that auto-ejects the player at the end of the audio emits
\* an END response and, after it, a STATE response.
C10_EndThenState ==
    last.op = "loop_iter" /\ last.pre = S_PLAY /\ cstate = S_EJCT =>
        \E i \in 1..Len(out) : \E j \in 1..Len(out) :
            i < j /\ out[i].code = "END" /\ out[j].code = "STAT"

\* C11: the held frame is either empty or has its cursor inside it: at or
\* after its first byte and before its end. A frame sent whole is dropped.
C11_FrameCursorInside ==
    au.frame = <<>>
    \/ (0 <= au.frame_iterator
        /\ au.frame_iterator < Len(au.frame) * BytesPerSample)

\* A frame the ring had no room for all of is kept, its cursor past the
\* samples sent.
C11_Witness ==
    last.op = "transfer" /\ au.frame # <<>> /\ au.frame_iterator > 0

\* The whole samples of the frame from its cursor on.
RemainingSamples(a) ==
    (Len(a.frame) * BytesPerSample - a.frame_iterator) \div BytesPerSample

\* C12: Transfer decides to write min(remaining whole samples of the frame,
\* write capacity of the ring) samples; it then appends exactly those samples
\* to the ring, whatever the callback has read meanwhile, and moves the
\* cursor on by exactly their bytes: a multiple of the bytes per sample that
\* does not pass the frame's end. When that minimum is zero (ring full)
\* nothing is written and the cursor stays.
C12_TransferWrites ==
    [][ /\ last'.op = "loop_iter" /\ pc' = "xfer" =>
              /\ au'.ring = au.ring
              /\ au'.xf_count =
                     Min(RemainingSamples(au'), WriteCapacity(au.ring))
        /\ last'.op = "loop_iter" /\ pc' # "xfer" /\ au'.loaded =>
              /\ au'.ring = au.ring
              /\ Min(RemainingSamples(au'), WriteCapacity(au.ring)) = 0
              /\ au'.frame = au.frame => au'.frame_iterator = au.frame_iterator
        /\ last'.op = "transfer" =>
              LET count == au.xf_count
                  delta == count * BytesPerSample
                  first == au.frame_iterator \div BytesPerSample
              IN  /\ count <= WriteCapacity(au.ring)
                  /\ au'.ring =
                        au.ring \o SubSeq(au.frame, first + 1, first + count)
                  /\ delta % (BytesPerSample) = 0
                  /\ au.frame_iterator + delta <= Len(au.frame) * BytesPerSample
                  /\ IF au.frame_iterator + delta = Len(au.frame) * BytesPerSample
                     THEN au'.frame = <<>>
                     ELSE /\ au'.frame = au.frame
                          /\ au'.frame_iterator = au.frame_iterator + delta
      ]_vars

\* A Transfer has written part of its frame into the room it saw, the
\* callback having read from the ring between its reading of the write
\* capacity and its writing.
C12_Witness ==
    /\ last.op = "transfer" /\ last.arg > 0
    /\ au.frame # <<>> /\ au.frame_iterator > 0

C14_PositionMonotone ==
    [][ /\ au.loaded /\ au'.loaded
        /\ last'.op # "load"
        /\ ~(last'.op = "seek" /\ last'.valid)
        => /\ au'.position_sample_count >= au.position_sample_count
           /\ last'.op = "callback" =>
                 au'.position_sample_count - au.position_sample_count
                     = Len(au.ring) - Len(au'.ring)
           /\ last'.op # "callback" =>
                 au'.position_sample_count = au.position_sample_count
      ]_vars

\* The callback has read the one sample the ring held, having been asked
\* for more, and the position has moved on.
C14_Witness ==
    /\ last.op = "callback" /\ au.cb_pc = "idle"
    /\ au.position_sample_count = 1 /\ au.ring = <<>> /\ au.src_pos = 1

C16_TimeAfterSeek ==
    [][ /\ last'.op = "loop_iter" /\ cstate = S_PLAY /\ ~halted(au)
        /\ hist.seeked /\ hist.announced
        => HasTime(out')
      ]_vars

\* C17: after a successful seek to a time t (in microseconds) inside the
\* file, the sink's position is t converted to samples once, so that the
\* position reported is t to within one sample: not after t, and before it
\* by at most the time one sample lasts.
C17_SeekPosition ==
    /\ last.op = "seek" /\ last.valid
    /\ SamplesFromMicros(au, SeekTime(last.arg)) <= FileLen
    => /\ au.position_sample_count = SamplesFromMicros(au, SeekTime(last.arg))
       /\ Position(au) <= SeekTime(last.arg)
       /\ SeekTime(last.arg) - Position(au) <= MicrosFromSamples(au, 1)

\* C18, as stated: converting a sample count to microseconds and back
\* returns the same sample count.
C18_RoundTrip ==
    pc = "samples" => au.position_sample_count = last.arg

\* C18, amended: converting a sample count s to microseconds and back
\* returns s or s - 1, and returns s when the sample rate divides 1000000.
C18_RoundTripWithinOne ==
    pc = "samples" =>
        /\ au.position_sample_count \in {last.arg - 1, last.arg}
        /\ MICROS_IN_SEC % au.rate = 0 => au.position_sample_count = last.arg

\* At 44100 Hz three samples are 68 microseconds, which are two samples.
C18_Witness ==
    /\ pc = "samples" /\ au.rate = 44100
    /\ last.arg = 3 /\ ptime = 68 /\ au.position_sample_count = 2

\* C19: a seek that fails with SeekError leaves the player state, whether
\* the audio is playing, the sink's position, the frame and its cursor, and
\* the seconds last announced to the listeners as they were.
C19_FailedSeekChangesNothing ==
    [][ last'.op = "seek" /\ last'.err = "SeekError" =>
          /\ cstate' = cstate
          /\ au'.state = au.state /\ au'.paused = au.paused
          /\ au'.position_sample_count = au.position_sample_count
          /\ au'.frame = au.frame /\ au'.frame_iterator = au.frame_iterator
          /\ au'.last_times = au.last_times
      ]_vars

\* C20: once Decode has reported the end of the file, and until a seek
\* succeeds, the source stays at the end of the file: a further Decode can
\* only read nothing and report the end of the file again.
C20_EofSticks ==
    au.loaded /\ au.source_out =>
        /\ au.decode_state = END_OF_FILE
        /\ \A n \in 0..BufCap : CanRead(au, n) => n = 0

\* C21: a command line with the verb seek runs the seek operation: it does
\* not run the load operation, the held audio is neither replaced nor
\* dropped, and the player is not moved to Ejected or from Playing to
\* Stopped.
C21_SeekVerbSeeks ==
    [][ last'.verb = "seek" =>
          /\ last'.op = "seek"
          /\ au'.loaded = au.loaded /\ au'.path = au.path
          /\ cstate # S_EJCT => cstate' # S_EJCT
          /\ ~(cstate = S_PLAY /\ cstate' = S_STOP)
      ]_vars

\* A state change to the state s is announced by the i-th response.
Announces(responses, i, s) ==
    responses[i].code = "STAT" /\ responses[i].args[2] = s

\* C22: a load issued while Playing that builds its audio is accepted,
\* announces a change to Ejected and after it a change to Stopped, and
\* leaves the player Stopped with the new audio.
C22_LoadEjectsFirst ==
    /\ Ran("load") /\ last.verb = "load"
    /\ last.pre = S_PLAY /\ last.err = "none"
    => /\ last.valid
       /\ Fresh(au) /\ cstate = S_STOP
       /\ \E i \in 1..Len(out) : \E j \in 1..Len(out) :
             i < j /\ Announces(out, i, S_EJCT) /\ Announces(out, j, S_STOP)

\* C23: a load that fails to build its audio is reported as accepted and
\* announces a change to Ejected, whatever the player state was (Ejected,
\* Stopped or Playing).
C23_FailedLoadAnnounced ==
    /\ Ran("load") /\ last.verb = "load"
    /\ last.pre # S_QUIT /\ last.err = "caught"
    => /\ last.valid
       /\ cstate = S_EJCT
       /\ \E i \in 1..Len(out) : Announces(out, i, S_EJCT)

\* C24: a quit issued while Playing announces Playing to Ejected and then
\* Ejected to Quit and nothing else; the step after it leaves the player in
\* Quit and announces no state change, and if it ends the loop it says the
\* goodbye.
C24_QuitSequence ==
    [][ /\ last'.op = "quit" /\ last'.pre = S_PLAY =>
              out' = <<Resp("STAT", <<S_PLAY, S_EJCT>>),
                       Resp("STAT", <<S_EJCT, S_QUIT>>)>>
        /\ last.op = "quit" /\ last.pre = S_PLAY /\ cstate = S_QUIT =>
              /\ cstate' = S_QUIT
              /\ \A i \in 1..Len(out') : out'[i].code # "STAT"
              /\ pc' = "done" => out' = <<Resp("TTFN", <<>>)>>
      ]_vars

\* C25: on the null audio SetPlaying, Seek and Position fail with
\* NoAudioError and Update returns None; none of them changes the audio or
\* the player, or emits a response.
C25_NoAudioFails ==
    [][ last'.op \in NoAudioCalls =>
          /\ au' = au /\ cstate' = cstate /\ ptime' = ptime /\ out' = <<>>
          /\ IF last'.op = "NoAudio::Update"
             THEN last'.err = "none" /\ last'.arg = NONE
             ELSE last'.err = "NoAudioError"
      ]_vars

\* No audio is held, and a Seek on the null audio has failed and changed
\* nothing.
C25_Witness ==
    /\ last.op = "NoAudio::Seek" /\ last.err = "NoAudioError"
    /\ ~au.loaded /\ cstate = S_EJCT /\ ptime = 0 /\ hist = HistInit

\* C26: a STATE response emitted by the audio names its state: Playing,
\* Stopped or AtEnd as the sink's state is, and Ejected for the null audio.
C26_EmitStateNames ==
    last.op = "emit" /\ out # <<>> /\ out[1].code = "STATE" =>
        out[1].args =
            << IF ~au.loaded THEN "Ejected"
               ELSE IF au.state = PLAYING THEN "Playing"
               ELSE IF au.state = STOPPED THEN "Stopped"
               ELSE "AtEnd" >>

\* C27: a seek issued while Playing or Stopped whose time string has a unit
\* the time parser does not know is refused with an error, and leaves the
\* player state, whether the audio is playing and its position as they were.
C27_UnknownUnitRefused ==
    [][ /\ last'.op = "seek" /\ Parse(last'.arg).err = "out_of_range"
        /\ cstate \in {S_PLAY, S_STOP}
        =>
          /\ ~last'.valid /\ last'.err # "none"
          /\ cstate' = cstate
          /\ au'.state = au.state /\ au'.paused = au.paused
          /\ au'.position_sample_count = au.position_sample_count
      ]_vars

C29_AtEndHasSourceOut ==
    /\ pc = "sink" /\ au.state = AT_END => au.source_out
    /\ last.op = "SourceOut" => last.err = "none"

\* C30: in every interleaving the state of the sink changes only from
\* Stopped to Playing (Start), from Playing or AtEnd to Stopped (Stop, and
\* SetPosition from AtEnd) and from Playing to AtEnd (the callback); so a
\* callback never overwrites a Stopped, and after Stop the state stays
\* Stopped until Start.
C30_SinkTransitions ==
    [][ au'.state # au.state =>
          \/ au.state = STOPPED /\ au'.state = PLAYING /\ last'.op = "Start"
          \/ au.state = PLAYING /\ au'.state = STOPPED /\ last'.op = "Stop"
          \/ au.state = AT_END /\ au'.state = STOPPED
               /\ last'.op \in {"Stop", "SetPosition"}
          \/ au.state = PLAYING /\ au'.state = AT_END /\ last'.op = "Callback"
      ]_vars

\* Stop has returned after stopping a sink the callback had put at the end.
C30_Witness ==
    /\ pc = "sink" /\ last.op = "Stop" /\ last.arg = AT_END
    /\ au.state = STOPPED /\ au.paused

\* C31: SetPosition and its flushing of the ring buffer run only while the
\* sink is Stopped and the device is paused, so never beside a callback; and
\* whenever the update thread is between two operations, a Stopped sink has
\* its device paused, also after SetPosition took the sink from AtEnd to
\* Stopped.
C31_SetPositionQuiesced ==
    /\ pc \in {"setpos", "flush"} =>
         au.state = STOPPED /\ au.paused /\ au.cb_pc = "idle"
    /\ pc = "sink" /\ au.state = STOPPED => au.paused

C33_IdleCallbackSilent ==
    [][ /\ last'.op = "Callback" /\ au.cb_pc = "idle"
        /\ au.state # PLAYING
        =>
          /\ \A i \in 1..Len(out') : out'[i] = SILENCE
          /\ Len(out') > 0
          /\ au'.cb_pc = "idle"
          /\ au'.ring = au.ring
          /\ au'.position_sample_count = au.position_sample_count
          /\ au'.source_out = au.source_out
          /\ au'.state = au.state
      ]_vars

\* A callback has found the sink at the end with a sample in the ring buffer
\* and returned.
C33_Witness ==
    /\ last.op = "Callback" /\ last.arg = AT_END /\ au.state = AT_END
    /\ au.cb_pc = "idle" /\ Len(au.ring) > 0
    /\ Len(out) > 0 /\ \A i \in 1..Len(out) : out[i] = SILENCE

\* C35: at the step that turns the sink AtEnd, the source has reported the
\* end of the file, the frame in flight is empty and the ring buffer has no
\* readable samples: the end is not signalled while decoded samples are
\* still to be delivered.
C35_AtEndAfterAllPlayed ==
    [][ au.state # AT_END /\ au'.state = AT_END =>
          /\ au'.decode_state = END_OF_FILE
          /\ au'.frame = <<>>
          /\ ReadCapacity(au'.ring) = 0
      ]_vars

\* C36: whatever commands and loop iterations have run, the player holds an
\* audio object exactly when its state is Stopped or Playing.
C36_AudioIffLoadedState ==
    au.loaded <=> cstate \in {S_STOP, S_PLAY}

\* A load that failed while the player was Playing has dropped the audio and
\* left the player Ejected.
C36_Witness ==
    /\ last.op = "load" /\ last.err = "caught" /\ last.pre = S_PLAY
    /\ ~au.loaded /\ cstate = S_EJCT

IsPrefix(s, t) == Len(s) <= Len(t) /\ SubSeq(t, 1, Len(s)) = s

\* C34: between seeks, the samples the callback has delivered to the device
\* are a prefix of the samples Decode has produced since the last seek:
\* nothing is dropped, doubled or out of order, in every interleaving of
\* Update and the callback, also when a frame goes into the ring buffer in
\* several pieces.
C34_DeliveredIsPrefix == IsPrefix(hist.delivered, hist.decoded)

\* A frame of two samples is going into the ring buffer in two pieces: its
\* first sample has been written and delivered, its second is still in the
\* frame.
C34_Witness ==
    /\ au.frame = <<1, 2>> /\ au.frame_iterator = BytesPerSample
    /\ hist.decoded = <<0, 1, 2>> /\ hist.delivered = <<0, 1>>

====
